---- MODULE Spec2Model ----
(***************************************************************************)
(* Model of src/src/App.tsx: the App component of snafed.  The component   *)
(* keeps two caches keyed by file index (audioDataCache and                *)
(* spectrogramImageDataCache) and renders the spectrogram of the selected  *)
(* file through promise chains.  The JavaScript event loop is modelled     *)
(* explicitly: `tasks' holds the file reads and decodes in flight (each    *)
(* one a pending promise created by getAudioData), `mq' is the microtask   *)
(* queue of promise reactions.  A macrotask (a DOM event, a FileReader     *)
(* event, a decodeAudioData callback) runs only when the microtask queue   *)
(* is empty, and the reactions run one by one in FIFO order.               *)
(***************************************************************************)
EXTENDS Integers, Sequences, FiniteSets, Bags, TLC

\* ---------------------------------------------------------------- bounds
\* Number of audio files in props.audioFiles.
NumFiles == 2
\* Most promises of getAudioData that may be pending at once.
MaxInFlight == 3
\* The history counter epochReads saturates here.
ReadsCap == 2

Files == 0 .. (NumFiles - 1)
\* Values window.innerWidth takes.
Widths == {0, 2}
\* Values the volume slider reports (Number(change.target.value)).
VolumeInputs == {-1, 0, 1, 2}

VARIABLES
    mounted,                    \* componentDidMount has run (spectrogramRef.current # null)
    selectedIndex,              \* this.state.selectedIndex
    volume,                     \* this.state.volume
    innerWidth,                 \* window.innerWidth
    audioDataCache,             \* this.audioDataCache
    spectrogramImageDataCache,  \* this.spectrogramImageDataCache
    canvas,                     \* what the visible canvas shows
    tasks,                      \* bag of file reads / decodes in flight
    hung,                       \* some promise of getAudioData is pending that
                                \* nothing will ever settle
    mq,                         \* microtask queue (promise reactions)
    epochReads,                 \* file reads started for the selection since it was
                                \* selected or the window was resized (history)
    superseded                  \* the index the user left last while a render request
                                \* for it was waiting for its audio (history)

vars == <<mounted, selectedIndex, volume, innerWidth, audioDataCache,
          spectrogramImageDataCache, canvas, tasks, hung, mq, epochReads, superseded>>

\* ------------------------------------------------------------ value shapes
\* "undefined": no index, no cache entry.
NoIndex == -1
\* "undefined" cache slots and an untouched canvas.
NoAudio == [file |-> NoIndex, obj |-> 0, bins |-> 0]
NoImage == [file |-> NoIndex, width |-> 0, height |-> 0]
NoMarks == [fileIndex |-> NoIndex, audioFile |-> NoIndex, cv |-> NoIndex]

\* this.state.isPlaying is set in the constructor and never changed.
isPlaying == FALSE

\* getSpectrumFftData(...).spectrumBins: a deterministic function of the decoded
\* buffer and of this.state.config (which never changes), hence of the file.
SpectrumBins(index) == 4 + index

\* Mutant of NewAudioData: the entry is stored with the audio buffer only,
\* before the spectrum is computed.
NewAudioData_BufferOnly(index, previous) ==
    [file |-> index, obj |-> IF previous.obj = 1 THEN 2 ELSE 1, bins |-> 0]

\* The AudioData object built by the decodeAudioData callback.  `obj' is the
\* identity of the object: a fresh object differs from the one it replaces
\* under the same key (two identities per key, used in turn).
NewAudioData(index, previous) ==
    [file |-> index, obj |-> IF previous.obj = 1 THEN 2 ELSE 1,
     bins |-> SpectrumBins(index)]

\* CanvasRenderingContext2D.getImageData throws IndexSizeError when sw or sh is 0.
GetImageDataThrows(w, h) == w = 0 \/ h = 0

\* A promise reaction waiting in the microtask queue.
Reaction(kind, index, aud, img) ==
    [kind |-> kind, index |-> index, aud |-> aud, img |-> img]

\* A pending promise of getAudioData(index): the file is being read and then
\* decoded.  cont names the only reaction attached to the promise: "orch"
\* (useSelectedAudioFileToRender, line 294) or "img" (getSpectrogramImageData,
\* line 231).
Task(index, cont) == [index |-> index, cont |-> cont]

ThenKind(cont) == IF cont = "orch" THEN "orchThen" ELSE "imgThen"

One(t) == SetToBag({t})

\* ------------------------------------------------------------- operations
\* tm is the part of the state a render request touches synchronously:
\* [tasks, mq, reads] (reads counts the file reads started).

\* Mutant of GetAudioData: the cache is not consulted.
GetAudioData_NoCacheCheck(index, cont, tm) ==
    [tm EXCEPT !.tasks = @ (+) One(Task(index, cont)),
               !.reads = @ + 1]

\* getAudioData(index).then(cont)
GetAudioData(index, cont, tm) ==
    IF audioDataCache[index] # NoAudio
    THEN [tm EXCEPT !.mq = Append(@, Reaction(ThenKind(cont), index,
                                              audioDataCache[index], NoImage))]
    ELSE [tm EXCEPT !.tasks = @ (+) One(Task(index, cont)),
                    !.reads = @ + 1]

\* Mutant of GetSpectrogramImageData: the image cache is not consulted.
GetSpectrogramImageData_NoCacheCheck(index, tm) == GetAudioData(index, "img", tm)

\* getSpectrogramImageData(index).then(put on canvas)
GetSpectrogramImageData(index, tm) ==
    IF spectrogramImageDataCache[index] # NoImage
    THEN [tm EXCEPT !.mq = Append(@, Reaction("put", index, NoAudio,
                                              spectrogramImageDataCache[index]))]
    ELSE GetAudioData(index, "img", tm)

\* renderSpectrogramUsingCache(renderConfig); the canvas ref is not null once mounted.
RenderSpectrogramUsingCache(fileIndex, tm) == GetSpectrogramImageData(fileIndex, tm)

\* renderMarkings(renderConfig, computedValues): draws the marks on renderConfig.ctx,
\* the context of the visible canvas, synchronously.
RenderMarkings(cnv, fileIndex, aud, cv) ==
    [cnv EXCEPT !.marks = [fileIndex |-> fileIndex, audioFile |-> aud.file, cv |-> cv]]

\* useSelectedAudioFileToRender([...]) called while `sel' is this.state.selectedIndex.
UseSelectedAudioFileToRender(sel, tm) == GetAudioData(sel, "orch", tm)

\* resizeAndRerenderCanvas(); its own reaction only sets canvas.style.
ResizeAndRerenderCanvas(sel, tm) == UseSelectedAudioFileToRender(sel, tm)

Tm0 == [tasks |-> tasks, mq |-> mq, reads |-> 0]

\* Buttons' disabled attributes, render() lines 96 and 110.
PreviousDisabled == ~(0 < selectedIndex /\ ~isPlaying)
NextDisabled == ~(selectedIndex < NumFiles - 1 /\ ~isPlaying)

Max(a, b) == IF a >= b THEN a ELSE b
Min(a, b) == IF a <= b THEN a ELSE b

\* Mutant of PreviousIndex: the lower bound is not applied.
PreviousIndex_NoClamp == selectedIndex - 1

PreviousIndex == Max(0, selectedIndex - 1)
NextIndex == Min(NumFiles - 1, selectedIndex + 1)

ClampVolume(unclamped) == Max(0, Min(unclamped, 1))

\* An orchestrator request for index i is waiting for its audio.
Waiting(i) == \E t \in BagToSet(tasks) : t.index = i /\ t.cont = "orch"

\* ------------------------------------------------------------------ Init
Init ==
    /\ mounted = FALSE
    /\ selectedIndex = 0
    /\ volume = 1
    /\ innerWidth \in Widths
    /\ audioDataCache = [i \in Files |-> NoAudio]
    /\ spectrogramImageDataCache = [i \in Files |-> NoImage]
    /\ canvas = [image |-> NoImage, marks |-> NoMarks]
    /\ tasks = EmptyBag
    /\ mq = << >>
    /\ hung = FALSE
    /\ epochReads = 0
    /\ superseded = NoIndex

\* A DOM event, FileReader event or decode callback runs as a task of its own.
MacroTask == mounted /\ mq = << >>

\* Room for the promises a handler may create (bound of the model).
Room(tm) == BagCardinality(tm.tasks) <= MaxInFlight

\* ---------------------------------------------------------------- actions
ComponentDidMount ==
    /\ ~mounted
    /\ LET tm == ResizeAndRerenderCanvas(selectedIndex, Tm0) IN
        /\ Room(tm)
        /\ mounted' = TRUE
        /\ tasks' = tm.tasks
        /\ mq' = tm.mq
        /\ epochReads' = Min(ReadsCap, epochReads + tm.reads)
    /\ UNCHANGED <<selectedIndex, volume, innerWidth, audioDataCache,
                   spectrogramImageDataCache, canvas, hung, superseded>>

\* setState({volume}) re-renders; componentDidUpdate calls resizeAndRerenderCanvas.
VolumeSliderOnChange ==
    /\ MacroTask
    /\ \E unclamped \in VolumeInputs :
        LET tm == ResizeAndRerenderCanvas(selectedIndex, Tm0) IN
        /\ Room(tm)
        /\ volume' = ClampVolume(unclamped)
        /\ tasks' = tm.tasks
        /\ mq' = tm.mq
        /\ epochReads' = Min(ReadsCap, epochReads + tm.reads)
    /\ UNCHANGED <<mounted, selectedIndex, innerWidth, audioDataCache,
                   spectrogramImageDataCache, canvas, hung, superseded>>

\* Mutant of SelectFile: a selection change also empties the image cache.
SelectFile_ClearsImages(index) ==
    LET tm == UseSelectedAudioFileToRender(index,
                  ResizeAndRerenderCanvas(index, Tm0))
    IN
    /\ Room(tm)
    /\ selectedIndex' = index
    /\ spectrogramImageDataCache' = [i \in Files |-> NoImage]
    /\ tasks' = tm.tasks
    /\ mq' = tm.mq
    /\ epochReads' = Min(ReadsCap, tm.reads)
    /\ superseded' = IF Waiting(selectedIndex) THEN selectedIndex ELSE superseded
    /\ UNCHANGED <<mounted, volume, innerWidth, audioDataCache, canvas, hung>>

\* setState({selectedIndex}, callback): the state is set, componentDidUpdate runs
\* resizeAndRerenderCanvas, then the callback runs useSelectedAudioFileToRender.
SelectFile(index) ==
    LET tm == UseSelectedAudioFileToRender(index,
                  ResizeAndRerenderCanvas(index, Tm0)) IN
    /\ Room(tm)
    /\ selectedIndex' = index
    /\ tasks' = tm.tasks
    /\ mq' = tm.mq
    /\ epochReads' = Min(ReadsCap, tm.reads)
    /\ superseded' = IF Waiting(selectedIndex)
                     THEN selectedIndex ELSE superseded
    /\ UNCHANGED <<mounted, volume, innerWidth, audioDataCache,
                   spectrogramImageDataCache, canvas, hung>>

PreviousFileButtonOnClick ==
    /\ MacroTask
    /\ ~PreviousDisabled
    /\ SelectFile(PreviousIndex)

NextFileButtonOnClick ==
    /\ MacroTask
    /\ ~NextDisabled
    /\ SelectFile(NextIndex)

\* Mutant of WindowOnResize: both caches are emptied.
WindowOnResize_ClearsBothCaches ==
    /\ MacroTask
    /\ \E w \in Widths :
        LET tm == [tasks |-> tasks (+) One(Task(selectedIndex, "orch")),
                   mq |-> mq, reads |-> 1] IN
        /\ Room(tm)
        /\ innerWidth' = w
        /\ spectrogramImageDataCache' = [i \in Files |-> NoImage]
        /\ audioDataCache' = [i \in Files |-> NoAudio]
        /\ tasks' = tm.tasks
        /\ mq' = tm.mq
        /\ epochReads' = Min(ReadsCap, tm.reads)
        /\ superseded' = NoIndex
    /\ UNCHANGED <<mounted, selectedIndex, volume, canvas, hung>>

\* Mutant of WindowOnResize: the AudioData cache is emptied instead of the
\* image cache.
WindowOnResize_ClearsAudioCache ==
    /\ MacroTask
    /\ \E w \in Widths :
        LET tm == GetAudioData_NoCacheCheck(selectedIndex, "orch", Tm0) IN
        /\ Room(tm)
        /\ innerWidth' = w
        /\ audioDataCache' = [i \in Files |-> NoAudio]
        /\ tasks' = tm.tasks
        /\ mq' = tm.mq
        /\ epochReads' = Min(ReadsCap, tm.reads)
        /\ superseded' = NoIndex
    /\ UNCHANGED <<mounted, selectedIndex, volume, spectrogramImageDataCache,
                   canvas, hung>>

\* Mutant of WindowOnResize: the image cache is kept.
WindowOnResize_KeepsImages ==
    /\ MacroTask
    /\ \E w \in Widths :
        LET tm == ResizeAndRerenderCanvas(selectedIndex, Tm0) IN
        /\ Room(tm)
        /\ innerWidth' = w
        /\ tasks' = tm.tasks
        /\ mq' = tm.mq
        /\ epochReads' = Min(ReadsCap, tm.reads)
        /\ superseded' = NoIndex
    /\ UNCHANGED <<mounted, selectedIndex, volume, audioDataCache,
                   spectrogramImageDataCache, canvas, hung>>

WindowOnResize ==
    /\ MacroTask
    /\ \E w \in Widths :
        LET tm == ResizeAndRerenderCanvas(selectedIndex, Tm0) IN
        /\ Room(tm)
        /\ innerWidth' = w
        /\ spectrogramImageDataCache' = [i \in Files |-> NoImage]
        /\ tasks' = tm.tasks
        /\ mq' = tm.mq
        /\ epochReads' = Min(ReadsCap, tm.reads)
        /\ superseded' = NoIndex
    /\ UNCHANGED <<mounted, selectedIndex, volume, audioDataCache, canvas, hung>>

\* Mutant of DecodeSuccess: an entry already cached is kept (first write wins).
DecodeSuccess_FirstWins ==
    /\ MacroTask
    /\ \E t \in BagToSet(tasks) :
        /\ LET data == IF audioDataCache[t.index] # NoAudio
                       THEN audioDataCache[t.index]
                       ELSE NewAudioData(t.index, audioDataCache[t.index]) IN
            /\ audioDataCache' = [audioDataCache EXCEPT ![t.index] = data]
            /\ mq' = << Reaction(ThenKind(t.cont), t.index, data, NoImage) >>
        /\ tasks' = tasks (-) One(t)
    /\ UNCHANGED <<mounted, selectedIndex, volume, innerWidth,
                   spectrogramImageDataCache, canvas, hung, epochReads, superseded>>

\* The FileReader's "load" listener runs and the success callback of
\* decodeAudioData follows (lines 205-219): build AudioData, store it,
\* resolve(data).  The listener itself only hands the bytes to the decoder.
DecodeSuccess ==
    /\ MacroTask
    /\ \E t \in BagToSet(tasks) :
        /\ LET data == NewAudioData(t.index, audioDataCache[t.index]) IN
            /\ audioDataCache' = [audioDataCache EXCEPT ![t.index] = data]
            /\ mq' = << Reaction(ThenKind(t.cont), t.index, data, NoImage) >>
        /\ tasks' = tasks (-) One(t)
    /\ UNCHANGED <<mounted, selectedIndex, volume, innerWidth,
                   spectrogramImageDataCache, canvas, hung, epochReads, superseded>>

\* Mutant of DecodeError: the failure leaves an entry without data in the cache.
DecodeError_CachesFailure ==
    /\ MacroTask
    /\ \E t \in BagToSet(tasks) :
        /\ tasks' = tasks (-) One(t)
        /\ hung' = TRUE
        /\ audioDataCache' = [audioDataCache EXCEPT
                                 ![t.index] = [file |-> t.index, obj |-> 1, bins |-> 0]]
    /\ UNCHANGED <<mounted, selectedIndex, volume, innerWidth,
                   spectrogramImageDataCache, canvas, mq, epochReads, superseded>>

\* The read or the decode fails.  No "error" listener is registered on the
\* FileReader (lines 204-221), decodeAudioData gets no error callback and the
\* promise it returns is dropped (line 207): nothing ever calls resolve, and
\* the promise was built without a reject (line 203).
DecodeError ==
    /\ MacroTask
    /\ \E t \in BagToSet(tasks) :
        /\ tasks' = tasks (-) One(t)
        /\ hung' = TRUE
    /\ UNCHANGED <<mounted, selectedIndex, volume, innerWidth, audioDataCache,
                   spectrogramImageDataCache, canvas, mq, epochReads, superseded>>

\* Mutant of OrchThen: the marks are not drawn when the image is a cache hit.
OrchThen_MarksOnlyOnMiss ==
    /\ mq # << >>
    /\ Head(mq).kind = "orchThen"
    /\ LET r == Head(mq)
           fileIndex == selectedIndex
           tm == RenderSpectrogramUsingCache(fileIndex,
                     [tasks |-> tasks, mq |-> Tail(mq), reads |-> 0])
       IN
        /\ tasks' = tm.tasks
        /\ mq' = tm.mq
        /\ canvas' = IF spectrogramImageDataCache[fileIndex] # NoImage
                     THEN canvas
                     ELSE RenderMarkings(canvas, fileIndex, r.aud, r.index)
        /\ epochReads' = Min(ReadsCap, epochReads + tm.reads)
    /\ UNCHANGED <<mounted, selectedIndex, volume, innerWidth, audioDataCache,
                   spectrogramImageDataCache, hung, superseded>>

\* The reaction of useSelectedAudioFileToRender (lines 294-303): the RenderConfig
\* takes this.state.selectedIndex as it is now, then each renderer runs in turn.
OrchThen ==
    /\ mq # << >>
    /\ Head(mq).kind = "orchThen"
    /\ LET r == Head(mq)
           fileIndex == selectedIndex
           tm == RenderSpectrogramUsingCache(fileIndex,
                     [tasks |-> tasks, mq |-> Tail(mq), reads |-> 0])
       IN
        /\ tasks' = tm.tasks
        /\ mq' = tm.mq
        /\ canvas' = RenderMarkings(canvas, fileIndex, r.aud, r.index)
        /\ epochReads' = Min(ReadsCap, epochReads + tm.reads)
    /\ UNCHANGED <<mounted, selectedIndex, volume, innerWidth, audioDataCache,
                   spectrogramImageDataCache, hung, superseded>>

\* Mutant of ImgThen: the image is stored under the index selected now.
ImgThen_StoresUnderSelection ==
    /\ mq # << >>
    /\ Head(mq).kind = "imgThen"
    /\ LET r == Head(mq)
           canvasWidth == innerWidth
           canvasHeight == r.aud.bins
           imgData == [file |-> r.aud.file, width |-> canvasWidth,
                       height |-> canvasHeight]
       IN
        IF GetImageDataThrows(canvasWidth, canvasHeight)
        THEN /\ mq' = Tail(mq)
             /\ UNCHANGED spectrogramImageDataCache
        ELSE /\ spectrogramImageDataCache' =
                    [spectrogramImageDataCache EXCEPT ![selectedIndex] = imgData]
             /\ mq' = Append(Tail(mq), Reaction("put", r.index, NoAudio, imgData))
    /\ UNCHANGED <<mounted, selectedIndex, volume, innerWidth, audioDataCache,
                   canvas, tasks, hung, epochReads, superseded>>

\* The reaction of getSpectrogramImageData (lines 232-254).
ImgThen ==
    /\ mq # << >>
    /\ Head(mq).kind = "imgThen"
    /\ LET r == Head(mq)
           canvasWidth == innerWidth
           canvasHeight == r.aud.bins
           imgData == [file |-> r.aud.file, width |-> canvasWidth,
                       height |-> canvasHeight]
       IN
        IF GetImageDataThrows(canvasWidth, canvasHeight)
        THEN /\ mq' = Tail(mq)
             /\ UNCHANGED spectrogramImageDataCache
        ELSE /\ spectrogramImageDataCache' =
                    [spectrogramImageDataCache EXCEPT ![r.index] = imgData]
             /\ mq' = Append(Tail(mq), Reaction("put", r.index, NoAudio, imgData))
    /\ UNCHANGED <<mounted, selectedIndex, volume, innerWidth, audioDataCache,
                   canvas, tasks, hung, epochReads, superseded>>

\* The reaction of renderSpectrogramUsingCache (lines 191-195): setting
\* canvas.width clears the canvas, putImageData paints the image.
PutImage ==
    /\ mq # << >>
    /\ Head(mq).kind = "put"
    /\ canvas' = [image |-> Head(mq).img, marks |-> NoMarks]
    /\ mq' = Tail(mq)
    /\ UNCHANGED <<mounted, selectedIndex, volume, innerWidth, audioDataCache,
                   spectrogramImageDataCache, tasks, hung, epochReads, superseded>>

Next ==
    \/ ComponentDidMount
    \/ VolumeSliderOnChange
    \/ PreviousFileButtonOnClick
    \/ NextFileButtonOnClick
    \/ WindowOnResize
    \/ DecodeSuccess
    \/ DecodeError
    \/ OrchThen
    \/ ImgThen
    \/ PutImage

Spec == Init /\ [][Next]_vars

\* ------------------------------------------------------- shared predicates
EmptyImageCache == [i \in Files |-> NoImage]

\* Pending getAudioData promises for file i in bag b.
ReadsOf(i, b) == CopiesIn(Task(i, "orch"), b) + CopiesIn(Task(i, "img"), b)

\* This step starts a file read (and decode) of file i.
StartsRead(i) == ReadsOf(i, tasks') > ReadsOf(i, tasks)

\* No bag element is lost in this step: nothing in flight is cancelled.
KeepsTasks == \A t \in BagToSet(tasks) : CopiesIn(t, tasks') >= CopiesIn(t, tasks)

\* A step in which the render orchestrator is invoked from an event handler.
Invocation ==
    \/ VolumeSliderOnChange
    \/ WindowOnResize
    \/ PreviousFileButtonOnClick
    \/ NextFileButtonOnClick

\* Nothing is in flight and no reaction is queued.
Quiescent == mounted /\ tasks = EmptyBag /\ mq = << >>

\* The render requests whose AudioData has arrived and whose renderers have
\* not run yet: the reactions of useSelectedAudioFileToRender in queue q.
IsOrchThen(r) == r.kind = "orchThen"

ArrivedRequests(q) == Len(SelectSeq(q, IsOrchThen))

\* ---------------------------------------------------------------- claims

\* C1: a resize empties the whole PixelBuffer cache and leaves the AudioData
\* cache unchanged; the re-render that follows, for an index whose audio is
\* cached, starts no file read, and its reaction finds no image and queues
\* the image producer again (again without a file read).
C1_ResizeClearsOnlyImages ==
    [][ /\ WindowOnResize =>
            /\ spectrogramImageDataCache' = EmptyImageCache
            /\ audioDataCache' = audioDataCache
            /\ audioDataCache[selectedIndex] # NoAudio =>
                 /\ tasks' = tasks
                 /\ mq' = << Reaction("orchThen", selectedIndex,
                                      audioDataCache[selectedIndex], NoImage) >>
        /\ ( /\ OrchThen
             /\ spectrogramImageDataCache = EmptyImageCache
             /\ audioDataCache[selectedIndex] # NoAudio ) =>
            /\ tasks' = tasks
            /\ mq' = Append(Tail(mq), Reaction("imgThen", selectedIndex,
                                      audioDataCache[selectedIndex], NoImage))
      ]_vars

\* C1 witness: the image producer is about to run again for the selected
\* index, whose image is on the canvas (it was rendered and cached before)
\* but no longer in the cache (a resize cleared it), with no read in flight.
C1_Witness ==
    /\ mq # << >>
    /\ Head(mq) = Reaction("imgThen", selectedIndex,
                           audioDataCache[selectedIndex], NoImage)
    /\ audioDataCache[selectedIndex] # NoAudio
    /\ spectrogramImageDataCache = EmptyImageCache
    /\ canvas.image.file = selectedIndex
    /\ innerWidth # 0
    /\ tasks = EmptyBag

\* C2 (as claimed): consecutive invocations of the orchestrator while i stays
\* selected and no resize intervenes start at most one read/decode of file i,
\* whether or not an earlier invocation has completed.
C2_Original == epochReads <= 1

\* C2 (amended): once a decode of file i has completed (audioDataCache holds
\* an entry for i) no step starts another read/decode of i; an invocation
\* made while audioDataCache has no entry for the selection starts a read of
\* its own, also when one is already in flight.
C2_DecodedOnceWhenSequential ==
    [][ /\ \A i \in Files : audioDataCache[i] # NoAudio => ~StartsRead(i)
        /\ ( /\ VolumeSliderOnChange \/ WindowOnResize
             /\ audioDataCache[selectedIndex] = NoAudio ) =>
            ReadsOf(selectedIndex, tasks') = ReadsOf(selectedIndex, tasks) + 1
      ]_vars

\* C2 witness: the selection is fully rendered after one read in this epoch
\* and a further invocation has found its audio in the cache: its reaction
\* is queued and nothing is being read.
C2_Witness ==
    /\ epochReads = 1
    /\ audioDataCache[selectedIndex] # NoAudio
    /\ spectrogramImageDataCache[selectedIndex] # NoImage
    /\ canvas.image.file = selectedIndex
    /\ mq = << Reaction("orchThen", selectedIndex,
                        audioDataCache[selectedIndex], NoImage) >>
    /\ tasks = EmptyBag

\* C3: get-or-compute on both caches.  getAudioData (called for the selection
\* by an invocation): on a hit the reaction receives exactly the cached entry,
\* no read starts and the cache is unchanged; on a miss a read starts and,
\* when it completes, the produced value is stored under its key and the same
\* value is handed to the reaction.  getSpectrogramImageData (called by the
\* orchestrator's reaction): on a hit the cached image is handed on, no
\* producer runs, both caches are unchanged; on a miss the producer is
\* started, and when it has run, the image is stored under its key and the
\* same image is handed on.
C3_GetOrCompute ==
    [][ /\ Invocation =>
            /\ audioDataCache' = audioDataCache
            /\ IF audioDataCache[selectedIndex'] # NoAudio
               THEN /\ tasks' = tasks
                    /\ mq' # << >>
                    /\ \A k \in DOMAIN mq' :
                         mq'[k] = Reaction("orchThen", selectedIndex',
                                           audioDataCache[selectedIndex'], NoImage)
               ELSE /\ StartsRead(selectedIndex')
                    /\ mq' = mq
        /\ DecodeSuccess =>
            \E i \in Files :
                /\ ReadsOf(i, tasks') = ReadsOf(i, tasks) - 1
                /\ audioDataCache'[i] # NoAudio
                /\ audioDataCache'[i].file = i
                /\ \A j \in Files \ {i} : audioDataCache'[j] = audioDataCache[j]
                /\ Len(mq') = 1
                /\ mq'[1].index = i
                /\ mq'[1].aud = audioDataCache'[i]
        /\ OrchThen =>
            /\ audioDataCache' = audioDataCache
            /\ spectrogramImageDataCache' = spectrogramImageDataCache
            /\ IF spectrogramImageDataCache[selectedIndex] # NoImage
               THEN /\ tasks' = tasks
                    /\ mq' = Append(Tail(mq), Reaction("put", selectedIndex, NoAudio,
                                        spectrogramImageDataCache[selectedIndex]))
               ELSE \/ StartsRead(selectedIndex)
                    \/ /\ tasks' = tasks
                       /\ mq'[Len(mq')].kind = "imgThen"
                       /\ mq'[Len(mq')].index = selectedIndex
        /\ (ImgThen /\ ~GetImageDataThrows(innerWidth, Head(mq).aud.bins)) =>
            /\ audioDataCache' = audioDataCache
            /\ spectrogramImageDataCache'[Head(mq).index] # NoImage
            /\ \A j \in Files \ {Head(mq).index} :
                 spectrogramImageDataCache'[j] = spectrogramImageDataCache[j]
            /\ mq'[Len(mq')] = Reaction("put", Head(mq).index, NoAudio,
                                        spectrogramImageDataCache'[Head(mq).index])
      ]_vars

\* C3 witness: the orchestrator's reaction has run for the selection with
\* its image already cached (and shown): the cached image is queued to be
\* put on the canvas and nothing was started.
C3_Witness ==
    /\ spectrogramImageDataCache[selectedIndex] # NoImage
    /\ canvas.image = spectrogramImageDataCache[selectedIndex]
    /\ canvas.marks.fileIndex = selectedIndex
    /\ mq = << Reaction("put", selectedIndex, NoAudio,
                        spectrogramImageDataCache[selectedIndex]) >>
    /\ tasks = EmptyBag

\* C4 (as claimed): marks are drawn only onto a surface that already holds
\* the request's spectrogram image, and they are still there when the request
\* is done (nothing in flight, nothing queued, no read or render failed).
C4_MarksOverImage ==
    /\ canvas.marks # NoMarks =>
         (canvas.image # NoImage /\ canvas.image.file = canvas.marks.fileIndex)
    /\ (Quiescent /\ ~hung /\ canvas.image # NoImage) =>
         canvas.marks # NoMarks

\* C5 (as claimed): when no read, decode or render remains in flight (and
\* none failed, and the window is not collapsed), the image on the visible
\* canvas is the one of the selected file.
C5_CanvasShowsSelection ==
    (Quiescent /\ ~hung /\ innerWidth # 0 /\ canvas.image # NoImage) =>
        canvas.image.file = selectedIndex

\* C6 (as claimed): a failed read or decode settles the promise of the
\* request: no promise of getAudioData is left that nothing will settle.
C6_FailureSettles == ~hung

\* C7: a failed read or decode changes neither cache, and a later
\* orchestrator invocation for an index without cached audio (such as the one
\* that failed) starts a file read again.
C7_FailureNotCached ==
    [][ /\ DecodeError =>
            /\ audioDataCache' = audioDataCache
            /\ spectrogramImageDataCache' = spectrogramImageDataCache
        /\ \A i \in Files :
            ( /\ Invocation
              /\ selectedIndex' = i
              /\ hung
              /\ audioDataCache[i] = NoAudio ) => StartsRead(i)
      ]_vars

\* C7 witness: no decode has succeeded yet, two reads of the selection were
\* started since it was selected and one of them failed: nothing was cached
\* for it, and a request for it is reading the file.
C7_Witness ==
    /\ hung
    /\ audioDataCache = [i \in Files |-> NoAudio]
    /\ spectrogramImageDataCache = EmptyImageCache
    /\ tasks = One(Task(selectedIndex, "orch"))
    /\ epochReads = 2

\* C8: a new request cancels nothing in flight, and every decode that
\* completes writes its own fresh AudioData under its key, replacing what was
\* there, while the other computations for the key stay in flight: the entry
\* is the one of the computation that finished last.
C8_LastWriteWins ==
    [][ /\ Invocation => KeepsTasks
        /\ DecodeSuccess =>
            \E i \in Files :
                /\ ReadsOf(i, tasks') = ReadsOf(i, tasks) - 1
                /\ BagCardinality(tasks') = BagCardinality(tasks) - 1
                /\ audioDataCache'[i] # audioDataCache[i]
                /\ audioDataCache'[i] = mq'[1].aud
                /\ audioDataCache'[i].file = i
      ]_vars

\* C8 witness: two computations for the same key were in flight together,
\* the second has just completed and replaced the first one's entry.
C8_Witness ==
    \E i \in Files :
        /\ audioDataCache[i].obj = 2
        /\ mq # << >>
        /\ Head(mq).aud = audioDataCache[i]
        /\ Head(mq).index = i

\* C9 (as claimed): when everything has completed without failure and
\* without a resize since, both caches hold an entry for the index the user
\* left while its request was waiting for the audio.
C9_SupersededCached ==
    (Quiescent /\ ~hung /\ innerWidth # 0 /\ superseded # NoIndex) =>
        /\ audioDataCache[superseded] # NoAudio
        /\ spectrogramImageDataCache[superseded] # NoImage

C11_MarksOncePerRequest ==
    [][ /\ OrchThen =>
            /\ ArrivedRequests(mq') = ArrivedRequests(mq) - 1
            /\ canvas'.marks = [fileIndex |-> selectedIndex,
                                audioFile |-> Head(mq).aud.file,
                                cv |-> Head(mq).index]
            /\ canvas'.image = canvas.image
            /\ audioDataCache' = audioDataCache
            /\ spectrogramImageDataCache' = spectrogramImageDataCache
        /\ (~OrchThen /\ canvas'.marks # NoMarks) => canvas'.marks = canvas.marks
      ]_vars

\* Marks drawn by a request that read nothing (the AudioData came from the
\* cache) and whose image came from the cache: only cached images are queued.
C11_Witness ==
    /\ epochReads = 0
    /\ tasks = EmptyBag
    /\ audioDataCache[selectedIndex] # NoAudio
    /\ canvas.marks.fileIndex = selectedIndex
    /\ canvas.marks.audioFile = selectedIndex
    /\ mq # << >>
    /\ \A k \in 1 .. Len(mq) :
        /\ mq[k].kind = "put"
        /\ mq[k].img = spectrogramImageDataCache[selectedIndex]

\* C12: when the display width is 0, producing the image of a file does not
\* fail: the step stores an image of width 0 (no pixels) under the file's
\* index and hands it on to be put on the canvas.
C12_ZeroWidthImage ==
    [][ (ImgThen /\ innerWidth = 0) =>
            LET index == Head(mq).index
                imgData == [file |-> index, width |-> 0,
                            height |-> SpectrumBins(index)]
            IN /\ spectrogramImageDataCache'[index] = imgData
               /\ mq' = Append(Tail(mq), Reaction("put", index, NoAudio, imgData))
      ]_vars

\* C13: an index that has an entry in the AudioData cache has one after every
\* step, whatever the step is: selection change, resize, volume change, decode
\* completion (which may replace the entry) or reaction.
C13_AudioEntriesLive ==
    [][ \A i \in Files :
            audioDataCache[i] # NoAudio => audioDataCache'[i] # NoAudio ]_vars

\* An entry that was overwritten by a second completion and is still there
\* after the selection moved away, the volume was changed and the window was
\* resized (the canvas still shows an image of the old width).
C13_Witness ==
    \E i \in Files :
        /\ audioDataCache[i].obj = 2
        /\ selectedIndex # i
        /\ volume = 0
        /\ spectrogramImageDataCache = EmptyImageCache
        /\ canvas.image # NoImage
        /\ canvas.image.width # innerWidth

\* C14: every key of the AudioData cache is either absent or holds a complete
\* entry: a decoded audio buffer (of some file) together with the spectrum
\* computed from that buffer; no entry has only one of the two.
C14_AudioEntriesComplete ==
    \A i \in Files :
        \/ audioDataCache[i] = NoAudio
        \/ /\ audioDataCache[i].file \in Files
           /\ audioDataCache[i].obj \in {1, 2}
           /\ audioDataCache[i].bins = SpectrumBins(audioDataCache[i].file)

\* Every key holds a complete entry, one of them just written (its reaction is
\* still queued) while another decode is in flight.
C14_Witness ==
    /\ \A i \in Files : audioDataCache[i] # NoAudio
    /\ tasks # EmptyBag
    /\ mq # << >>
    /\ Head(mq).aud = audioDataCache[Head(mq).index]
    /\ Head(mq).aud.bins = SpectrumBins(Head(mq).index)

\* C15: the AudioData cache changes only in a step in which a decode completes
\* successfully; the image cache changes only in a step in which a spectrogram
\* render completes or the window is resized; Previous, Next, a volume change,
\* drawing the marks and putting an image on the canvas change neither cache.
C15_CacheWriters ==
    [][ /\ audioDataCache' # audioDataCache => DecodeSuccess
        /\ spectrogramImageDataCache' # spectrogramImageDataCache =>
                (ImgThen \/ WindowOnResize)
        /\ ( \/ PreviousFileButtonOnClick
             \/ NextFileButtonOnClick
             \/ VolumeSliderOnChange
             \/ OrchThen
             \/ PutImage ) =>
                /\ audioDataCache' = audioDataCache
                /\ spectrogramImageDataCache' = spectrogramImageDataCache
      ]_vars

\* Both caches are full and the selection has just been moved by a click: the
\* two requests of the click are queued and nothing else is going on.
C15_Witness ==
    /\ \A i \in Files : audioDataCache[i] # NoAudio
    /\ \A i \in Files : spectrogramImageDataCache[i] # NoImage
    /\ canvas.image.file # selectedIndex
    /\ canvas.image # NoImage
    /\ tasks = EmptyBag
    /\ mq = << Reaction("orchThen", selectedIndex,
                        audioDataCache[selectedIndex], NoImage),
               Reaction("orchThen", selectedIndex,
                        audioDataCache[selectedIndex], NoImage) >>

\* C16: the RenderConfig a request hands to the renderers is consistent: the
\* audio buffer in it is the decoded audio of the file at its fileIndex, and
\* the computed values passed with it were computed for that same file, also
\* when the selection changed while the request waited for its audio data.
C16_RenderConfigConsistent ==
    [][ OrchThen =>
            LET audioData == Head(mq).aud
                computedValuesOf == Head(mq).index
                fileIndex == selectedIndex
            IN /\ audioData.file = fileIndex
               /\ computedValuesOf = fileIndex
      ]_vars

\* C17: keys and contents of the caches agree: the AudioData under key i was
\* decoded from file i, and the image under key i was rendered from the
\* AudioData of file i.
C17_KeysMatchContents ==
    \A i \in Files :
        /\ audioDataCache[i] # NoAudio => audioDataCache[i].file = i
        /\ spectrogramImageDataCache[i] # NoImage =>
                spectrogramImageDataCache[i].file = i

\* The image of file i has just been stored next to the audio of file i, and
\* the selection has moved to another file while it was produced.
C17_Witness ==
    \E i \in Files :
        /\ selectedIndex # i
        /\ audioDataCache[i].file = i
        /\ audioDataCache[selectedIndex].file = selectedIndex
        /\ spectrogramImageDataCache[selectedIndex].file = selectedIndex
        /\ mq # << >>
        /\ Head(mq) = Reaction("put", i, NoAudio, spectrogramImageDataCache[i])
        /\ spectrogramImageDataCache[i].file = i

\* C18: every index that has an image in the image cache also has an entry in
\* the AudioData cache.
C18_ImageHasAudio ==
    \A i \in Files :
        spectrogramImageDataCache[i] # NoImage => audioDataCache[i] # NoAudio

\* Some index has both entries while another has audio but no image, at rest,
\* after a read failed.
C18_Witness ==
    \E i, j \in Files :
        /\ spectrogramImageDataCache[i] # NoImage
        /\ audioDataCache[i] # NoAudio
        /\ audioDataCache[j] # NoAudio
        /\ spectrogramImageDataCache[j] = NoImage
        /\ hung
        /\ Quiescent

\* C19: the selected index is always an index of the file list; the Previous
\* handler at index 0 and the Next handler at the last index compute the index
\* they start from, elsewhere they compute the index one lower and one higher;
\* a click stores what its handler computes, and nothing else moves the
\* selection.
C19_SelectionInRange ==
    [][ /\ selectedIndex \in Files
        /\ selectedIndex' \in Files
        /\ PreviousIndex = (IF selectedIndex = 0
                            THEN selectedIndex ELSE selectedIndex - 1)
        /\ NextIndex = (IF selectedIndex = NumFiles - 1
                        THEN selectedIndex ELSE selectedIndex + 1)
        /\ PreviousFileButtonOnClick => selectedIndex' = PreviousIndex
        /\ NextFileButtonOnClick => selectedIndex' = NextIndex
        /\ selectedIndex' # selectedIndex =>
                (PreviousFileButtonOnClick \/ NextFileButtonOnClick)
      ]_vars

\* The selection has just been moved up to the last file by Next clicks: the
\* two requests of the last click are waiting and Next is now disabled.
C19_Witness ==
    /\ selectedIndex = NumFiles - 1
    /\ selectedIndex > 0
    /\ NextDisabled
    /\ ~PreviousDisabled
    /\ NextIndex = selectedIndex
    /\ PreviousIndex = selectedIndex - 1
    /\ CopiesIn(Task(selectedIndex, "orch"), tasks) = 2

====
